---- MODULE Spec2Model ----
(***************************************************************************)
(* A model of the passkey package (passkey.go): the PassKey rolling code   *)
(* set, its interval generator goroutine, the Server.IsValid middleware,   *)
(* Client.SetHeader and CMD.Current.                                       *)
(*                                                                         *)
(* Time is counted in units of a quarter of time.Minute, so that an        *)
(* interval has a first and a second half and time.Round's two directions  *)
(* both occur.  HMAC-SHA1 followed by the truncation is modelled by        *)
(* derive, an injective function of (secret, bucket) that never yields 0;   *)
(* the index arithmetic of the truncation is followed line by line in      *)
(* SpecTruncate.                                                           *)
(***************************************************************************)
EXTENDS Integers, Sequences, FiniteSets, TLC

\* time.Minute, in model time units (one unit is 15 seconds)
Minute == 4

\* the clock may advance this many units past Epoch
MaxElapsed == 6

\* how many times Start may be called on one session
MaxStarts == 2

\* the clock's advance where the calls come in any order
MaxApiElapsed == 3

\* the clock's first reading: a multiple of every interval used
Epoch == 3 * Minute

MaxTime == Epoch + MaxElapsed

\* the clock's advance where ticks may be handled late
MaxLateElapsed == 17

\* the last reading of the clock in any of the specifications
LastTime == Epoch + MaxLateElapsed

Sessions == {"server", "client", "cmd"}

\* the bytes of pk.secret
SecretSize == 20

\* the zero-filled [20]byte
ZeroKey == [i \in 1 .. SecretSize |-> 0]

\* contexts handed to Start
Ctxs == 1 .. MaxStarts

Min(a, b) == IF a < b THEN a ELSE b

-----------------------------------------------------------------------------
(* time.Time.Round and the code derivation                                 *)

\* t.Round(d): nearest multiple of d, halfway values round up; d <= 0
\* returns t unchanged
Round(t, d) ==
  IF d <= 0 THEN t
  ELSE LET r == t % d IN IF r + r < d THEN t - r ELSE t + (d - r)

\* rounding down to an interval boundary (what spec.md describes)
Floor(t, d) == IF d <= 0 THEN t ELSE t - (t % d)

\* the bucket generate(i) signs when it runs at time t with interval d
bucketOf(i, t, d) == Round(t + (i - 1) * d, d)

-----------------------------------------------------------------------------
(* binary.LittleEndian and base32.StdEncoding                              *)

RECURSIVE PutUint(_, _)
\* n little-endian bytes of v
PutUint(v, n) == IF n = 0 THEN <<>> ELSE <<v % 256>> \o PutUint(v \div 256, n - 1)

RECURSIVE Uint(_)
\* little-endian value of a byte sequence
Uint(b) == IF Len(b) = 0 THEN 0 ELSE b[1] + 256 * Uint(Tail(b))

PutUint64(v) == PutUint(v, 8)

Uint64SkippingFirst(b) == Uint(SubSeq(b, 2, 8))

Uint64(b) == Uint(SubSeq(b, 1, 8))

Alphabet ==
  << "A", "B", "C", "D", "E", "F", "G", "H", "I", "J", "K", "L", "M", "N", "O", "P",
     "Q", "R", "S", "T", "U", "V", "W", "X", "Y", "Z", "2", "3", "4", "5", "6", "7" >>

PadChar == "="

\* 2 to the power n, for the shifts below
Pow2(n) == CASE n = 0 -> 1 [] n = 1 -> 2 [] n = 2 -> 4 [] n = 3 -> 8
             [] n = 4 -> 16 [] n = 5 -> 32 [] n = 6 -> 64 [] n = 7 -> 128

\* bit j (1 is the first, most significant first) of a sequence of w-bit groups
BitAt(groups, w, j) == (groups[((j - 1) \div w) + 1] \div Pow2(w - 1 - ((j - 1) % w))) % 2

\* group i of w bits, read from a sequence of v-bit groups; bits past the
\* end of the sequence are zero
Regroup(groups, v, w, i) ==
  LET bit(j) == IF j <= v * Len(groups) THEN BitAt(groups, v, j) ELSE 0
      first == w * (i - 1)
      RECURSIVE sum(_)
      sum(k) == IF k > w THEN 0 ELSE bit(first + k) * Pow2(w - k) + sum(k + 1)
  IN sum(1)

\* base32.StdEncoding.EncodeToString: 5 bits per character, "=" padding to
\* a multiple of 8 characters
EncodeToString(b) ==
  LET nch == (8 * Len(b) + 4) \div 5
      chars == [i \in 1 .. nch |-> Alphabet[Regroup(b, 8, 5, i) + 1]]
  IN chars \o [i \in 1 .. ((8 - (nch % 8)) % 8) |-> PadChar]

CharIndex(ch) == CHOOSE i \in 1 .. 32 : Alphabet[i] = ch

IsAlpha(ch) == \E i \in 1 .. 32 : Alphabet[i] = ch

\* the number of "=" a string ends with
TrailingPads(s) ==
  IF \A i \in 1 .. Len(s) : s[i] = PadChar THEN Len(s)
  ELSE Len(s) - (CHOOSE i \in 1 .. Len(s) :
                   s[i] # PadChar /\ \A j \in (i + 1) .. Len(s) : s[j] = PadChar)

\* base32.StdEncoding.DecodeString: [err, b]
DecodeString(s) ==
  LET np == TrailingPads(s)
      data == SubSeq(s, 1, Len(s) - np)
      bad == \/ Len(s) % 8 # 0
             \/ np \notin {0, 1, 3, 4, 6}
             \/ \E i \in 1 .. Len(data) : ~IsAlpha(data[i])
  IN IF bad THEN [err |-> TRUE, b |-> <<>>]
     ELSE LET quintets == [i \in 1 .. Len(data) |-> CharIndex(data[i]) - 1]
          IN [err |-> FALSE,
              b |-> [i \in 1 .. ((5 * Len(data)) \div 8) |-> Regroup(quintets, 5, 8, i)]]

-----------------------------------------------------------------------------
(* secrets and the code derivation                                         *)

\* the secret of the example server and client
ExampleText ==
  << "P", "A", "S", "S", "K", "E", "Y", "X", "X", "B", "A", "S", "E", "3", "2", "X",
     "X", "S", "E", "C", "R", "E", "T", "X", "X", "E", "X", "A", "M", "P", "L", "E" >>

\* 32 characters that decode to twenty zero bytes
ZeroText == [i \in 1 .. 32 |-> "A"]

\* 32 characters, the last 6 of them padding: they decode, without error,
\* to 16 bytes
PaddedText == [i \in 1 .. 32 |-> IF i <= 26 THEN "7" ELSE PadChar]

\* 31 characters
ShortText == SubSeq(ExampleText, 1, 31)

\* 32 characters, one of them outside the alphabet
BadText == [ExampleText EXCEPT ![5] = "k"]

SecretTexts == {ExampleText, ZeroText, PaddedText, ShortText, BadText}

\* base32.StdEncoding.DecodeString of each of the texts
Decoded == [t \in SecretTexts |-> DecodeString(t)]

ExampleKey == Decoded[ExampleText].b

\* the key rand.Read leaves in the secret
RandomKey == [i \in 1 .. SecretSize |-> 160 + i]

\* copy(dst, src): as many bytes as the shorter of the two holds
Copy(dst, src) == [i \in 1 .. Len(dst) |-> IF i <= Len(src) THEN src[i] ELSE dst[i]]

\* the secrets a session can come to hold
Keys ==
  << ZeroKey, ExampleKey, RandomKey,
     Copy(ZeroKey, Decoded[PaddedText].b),
     Copy(ExampleKey, Decoded[PaddedText].b),
     Copy(RandomKey, Decoded[PaddedText].b) >>

KeyIndex(key) == (CHOOSE k \in 1 .. Len(Keys) : Keys[k] = key) - 1

\* codes of distinct (secret, bucket) pairs are distinct and non-zero
Stride == LastTime + 4 * Minute + 1

\* HMAC-SHA1 of the bucket under the key, truncated to 64 bits
derive(key, bucket) == KeyIndex(key) * Stride + bucket + 1

-----------------------------------------------------------------------------
(* the state                                                               *)

VARIABLES
  now,       \* the wall clock time.Now() reads
  interval,  \* pk.interval of each session
  secret,    \* pk.secret of each session
  cnp,       \* pk.cnp of each session: 0 current, 1 next, 2 previous
  tasks,     \* the goroutines Start launched on each session, with their tickers
  done,      \* the contexts that have been cancelled
  req,       \* the request the server's IsValid handler is serving
  gen        \* hash and nibble of a call of generate followed line by line

vars == <<now, interval, secret, cnp, tasks, done, req, gen>>

Slots == 0 .. 2

\* pc, hdr, code, out: the handler's position, the header value it read, the
\* code it decoded and the status it answered; win is the window when the
\* request arrived and raced tells whether a slot was stored since then
NoRequest ==
  [pc |-> "idle", hdr |-> <<>>, code |-> 0, out |-> 0, raced |-> FALSE,
   win |-> [i \in Slots |-> 0]]

\* no call of generate is being followed
NoCall == [pc |-> "none", hash |-> <<>>, nibble |-> 0]

Init ==
  /\ now = Epoch
  /\ interval = [s \in Sessions |-> 0]
  /\ secret = [s \in Sessions |-> ZeroKey]
  /\ cnp = [s \in Sessions |-> [i \in Slots |-> 0]]
  /\ tasks = [s \in Sessions |-> <<>>]
  /\ done = {}
  /\ req = NoRequest
  /\ gen = NoCall

Live(t) == t.pc # "halted"

\* no Start of the session has panicked
Alive(s) == \A k \in 1 .. Len(tasks[s]) : tasks[s][k].pc # "panic"

\* no goroutine of the session is left: the session is Stopped
Stopped(s) == \A k \in 1 .. Len(tasks[s]) : ~Live(tasks[s][k])

\* a store to the server's window is noted in the request being served
Touch(s) ==
  IF s = "server" /\ req.pc # "idle" THEN [req EXCEPT !.raced = TRUE] ELSE req

-----------------------------------------------------------------------------
(* PassKey                                                                 *)

\* what Interval leaves in pk.interval: arg is <<>> for nil, <<d>> otherwise
IntervalSet(arg) == IF Len(arg) = 0 \/ arg[1] = 0 THEN Minute ELSE arg[1]

Interval(s, arg) ==
  /\ interval' = [interval EXCEPT ![s] = IntervalSet(arg)]
  /\ UNCHANGED <<gen, now, secret, cnp, tasks, done, req>>

\* what Secret leaves in pk.secret, given the stored one
SecretSet(old, v) ==
  IF v.type = "string"
  THEN IF Len(v.val) = 32 /\ ~Decoded[v.val].err THEN Copy(old, Decoded[v.val].b) ELSE old
  ELSE IF v.type = "bytes" THEN Copy(old, v.val) ELSE old

Secret(s, v) ==
  /\ secret' = [secret EXCEPT ![s] = SecretSet(secret[s], v)]
  /\ UNCHANGED <<gen, now, interval, cnp, tasks, done, req>>

\* the window after generate(i) has run with the given secret and interval
generate(w, i, key, d) == [w EXCEPT ![i] = derive(key, bucketOf(i, now, d))]

\* Start's default interval
StartInterval(d) == IF d = 0 THEN IntervalSet(<<>>) ELSE d

StartWindowWithPrevious(w, key, d) ==
  generate(generate(generate(w, 0, key, d), 1, key, d), 2, key, d)

\* the token set Start generates
StartWindow(w, key, d) == generate(generate(w, 0, key, d), 1, key, d)

\* the goroutine and its ticker: ctx, pc, the ticker's period, the time of its
\* next tick and whether one waits in its channel, the value loaded by the
\* line being executed; at is the time of the Start call, n the number of
\* ticks handled, pre the window the tick being handled found and hist the
\* windows the last three ticks found, the latest first.
\* time.NewTicker panics for a period <= 0: no goroutine is launched then, and
\* pc records the panic
NewTask(c, d) ==
  [ctx |-> c, pc |-> IF d > 0 THEN "select" ELSE "panic", period |-> d, fire |-> now + d, pending |-> FALSE,
   tmp |-> 0, at |-> now, n |-> 0, pre |-> [i \in Slots |-> 0], hist |-> <<>>]

\* Start(ctx); rnd is what rand.Read yields when the secret is all zero.
\* The token set is stored before time.NewTicker is called.
Start(s, c, rnd) ==
  /\ Len(tasks[s]) < MaxStarts
  /\ LET d == StartInterval(interval[s])
         key == IF secret[s] = ZeroKey THEN rnd ELSE secret[s]
     IN /\ interval' = [interval EXCEPT ![s] = d]
        /\ secret' = [secret EXCEPT ![s] = key]
        /\ cnp' = [cnp EXCEPT ![s] = StartWindow(cnp[s], key, d)]
        /\ tasks' = [tasks EXCEPT ![s] = Append(@, NewTask(c, d))]
  /\ req' = Touch(s)
  /\ UNCHANGED <<gen, now, done>>

\* the context's cancel function
Cancel(c) ==
  /\ c \notin done
  /\ \E s \in Sessions : \E k \in 1 .. Len(tasks[s]) : tasks[s][k].ctx = c
  /\ done' = done \cup {c}
  /\ UNCHANGED <<gen, now, interval, secret, cnp, tasks, req>>

-----------------------------------------------------------------------------
(* the goroutine of Start                                                  *)

SetTask(s, k, t) == tasks' = [tasks EXCEPT ![s][k] = t]

ExitNoReturn(s, k) ==
  /\ tasks[s][k].pc = "select"
  /\ tasks[s][k].ctx \in done
  /\ SetTask(s, k, [tasks[s][k] EXCEPT !.pending = FALSE])
  /\ UNCHANGED <<gen, now, interval, secret, cnp, done, req>>

\* case <-ctx.Done(): ticker.Stop(); return
Exit(s, k) ==
  /\ tasks[s][k].pc = "select"
  /\ tasks[s][k].ctx \in done
  /\ SetTask(s, k, [tasks[s][k] EXCEPT !.pc = "halted", !.pending = FALSE])
  /\ UNCHANGED <<gen, now, interval, secret, cnp, done, req>>

\* case <-ticker.C; pre and hist remember the window the tick found
Recv(s, k) ==
  /\ tasks[s][k].pc = "select"
  /\ tasks[s][k].pending
  /\ SetTask(s, k, [tasks[s][k] EXCEPT !.pc = "l100", !.pending = FALSE, !.pre = cnp[s],
                                       !.hist = SubSeq(<<cnp[s]>> \o @, 1, Min(Len(@) + 1, 3))])
  /\ UNCHANGED <<gen, now, interval, secret, cnp, done, req>>

\* pk.cnp[0].Load() of line 100
LoadCurrent(s, k) ==
  /\ tasks[s][k].pc = "l100"
  /\ SetTask(s, k, [tasks[s][k] EXCEPT !.pc = "s100", !.tmp = cnp[s][0]])
  /\ UNCHANGED <<gen, now, interval, secret, cnp, done, req>>

StorePreviousDropped(s, k) ==
  /\ tasks[s][k].pc = "s100"
  /\ SetTask(s, k, [tasks[s][k] EXCEPT !.pc = "l101", !.tmp = 0])
  /\ UNCHANGED <<gen, now, interval, secret, cnp, done, req>>

\* pk.cnp[2].Store(...) of line 100
StorePrevious(s, k) ==
  /\ tasks[s][k].pc = "s100"
  /\ cnp' = [cnp EXCEPT ![s][2] = tasks[s][k].tmp]
  /\ SetTask(s, k, [tasks[s][k] EXCEPT !.pc = "l101", !.tmp = 0])
  /\ req' = Touch(s)
  /\ UNCHANGED <<gen, now, interval, secret, done>>

LoadNextStale(s, k) ==
  /\ tasks[s][k].pc = "l101"
  /\ SetTask(s, k, [tasks[s][k] EXCEPT !.pc = "s101", !.tmp = cnp[s][0]])
  /\ UNCHANGED <<gen, now, interval, secret, cnp, done, req>>

\* pk.cnp[1].Load() of line 101
LoadNext(s, k) ==
  /\ tasks[s][k].pc = "l101"
  /\ SetTask(s, k, [tasks[s][k] EXCEPT !.pc = "s101", !.tmp = cnp[s][1]])
  /\ UNCHANGED <<gen, now, interval, secret, cnp, done, req>>

\* pk.cnp[0].Store(...) of line 101
StoreCurrent(s, k) ==
  /\ tasks[s][k].pc = "s101"
  /\ cnp' = [cnp EXCEPT ![s][0] = tasks[s][k].tmp]
  /\ SetTask(s, k, [tasks[s][k] EXCEPT !.pc = "g102", !.tmp = 0])
  /\ req' = Touch(s)
  /\ UNCHANGED <<gen, now, interval, secret, done>>

\* pk.generate(1) of line 102, back to the select
GenerateNext(s, k) ==
  /\ tasks[s][k].pc = "g102"
  /\ cnp' = [cnp EXCEPT ![s] = generate(cnp[s], 1, secret[s], interval[s])]
  /\ SetTask(s, k, [tasks[s][k] EXCEPT !.pc = "select", !.n = Min(@ + 1, MaxElapsed),
                                       !.pre = [i \in Slots |-> 0]])
  /\ req' = Touch(s)
  /\ UNCHANGED <<gen, now, interval, secret, done>>

\* the clock moves on one unit; every running ticker whose period has elapsed
\* puts a tick in its channel.  Ticks are received, and a request is served,
\* before the clock moves again.
AdvanceTimeUntil(limit) ==
  /\ now < limit
  /\ req.pc = "idle"
  /\ \A s \in Sessions : \A k \in 1 .. Len(tasks[s]) :
        Live(tasks[s][k]) => (tasks[s][k].pc = "select" /\ ~tasks[s][k].pending)
  /\ now' = now + 1
  /\ tasks' = [s \in Sessions |-> [k \in 1 .. Len(tasks[s]) |->
        LET t == tasks[s][k]
        IN IF Live(t) /\ t.fire = now + 1
           THEN [t EXCEPT !.pending = TRUE, !.fire = t.fire + t.period]
           ELSE t]]
  /\ UNCHANGED <<gen, interval, secret, cnp, done, req>>

AdvanceTime == AdvanceTimeUntil(MaxTime)

\* the clock moves on while a tick waits in the channel of a goroutine that
\* has not been scheduled yet: the tick is handled late, by less than half a
\* period.  No tick is in progress when the clock moves.
AdvanceTimeLate(limit) ==
  /\ now < limit
  /\ req.pc = "idle"
  /\ \A s \in Sessions : \A k \in 1 .. Len(tasks[s]) :
        LET t == tasks[s][k]
        IN Live(t) =>
             /\ t.pc = "select"
             /\ t.pending => 2 * ((now + 1) - (t.fire - t.period)) < t.period
  /\ \E s \in Sessions : \E k \in 1 .. Len(tasks[s]) : tasks[s][k].pending
  /\ now' = now + 1
  /\ UNCHANGED <<gen, interval, secret, cnp, tasks, done, req>>

-----------------------------------------------------------------------------
(* Server.IsValid, Client.SetHeader, CMD.Current                           *)

\* the 10 bytes SetHeader and Current encode: the code, then 2 random bytes
Credential(code, pad) == SubSeq(PutUint64(code), 1, 8) \o pad

\* the header value SetHeader sets from the session's current slot
SetHeader(s, pad) == EncodeToString(Credential(cnp[s][0], pad))

\* lines 178-182: the handler reads the header; 400 unless it decodes to 10 bytes
Serve(h) ==
  /\ req.pc = "idle"
  /\ req' = LET r == DecodeString(h)
            IN IF r.err \/ Len(r.b) # 10
               THEN [NoRequest EXCEPT !.pc = "done", !.hdr = h, !.out = 400]
               ELSE [NoRequest EXCEPT !.pc = "c0", !.hdr = h, !.code = Uint64(r.b),
                                      !.win = cnp["server"]]
  /\ UNCHANGED <<gen, now, interval, secret, cnp, tasks, done>>

AfterCaseNoPrevious(r, i, slot) ==
  IF r.code = slot /\ i # 2 THEN [r EXCEPT !.pc = "done", !.out = 200]
  ELSE IF i = 2 THEN [r EXCEPT !.pc = "done", !.out = 401]
  ELSE [r EXCEPT !.pc = IF i = 0 THEN "c1" ELSE "c2"]

\* the case the switch goes to after comparing with slot i
AfterCase(r, i, slot) ==
  IF r.code = slot THEN [r EXCEPT !.pc = "done", !.out = 200]
  ELSE IF i = 2 THEN [r EXCEPT !.pc = "done", !.out = 401]
  ELSE [r EXCEPT !.pc = IF i = 0 THEN "c1" ELSE "c2"]

\* lines 186-188: one case of the switch loads its slot and compares
Case(i) ==
  /\ req.pc = (IF i = 0 THEN "c0" ELSE IF i = 1 THEN "c1" ELSE "c2")
  /\ req' = AfterCase(req, i, cnp["server"][i])
  /\ UNCHANGED <<gen, now, interval, secret, cnp, tasks, done>>

\* the handler returns
Reply ==
  /\ req.pc = "done"
  /\ req' = NoRequest
  /\ UNCHANGED <<gen, now, interval, secret, cnp, tasks, done>>

\* CMD.Current(secret): default interval, Secret, random secret if zero,
\* generate(0); the returned token is the encoding of the current slot
Current(s, v, rnd) ==
  /\ LET d == StartInterval(interval[s])
         set == SecretSet(secret[s], v)
         key == IF set = ZeroKey THEN rnd ELSE set
     IN /\ interval' = [interval EXCEPT ![s] = d]
        /\ secret' = [secret EXCEPT ![s] = key]
        /\ cnp' = [cnp EXCEPT ![s] = generate(cnp[s], 0, key, d)]
  /\ req' = Touch(s)
  /\ UNCHANGED <<gen, now, tasks, done>>

-----------------------------------------------------------------------------
(* the truncation in generate, line by line                                *)

\* sha1.Size, the length of the digest sign.Sum(nil) returns
DigestSize == 20

\* a digest ending in the given byte
Digest(last) ==
  [j \in 1 .. DigestSize |-> IF j = DigestSize THEN last ELSE IF j <= 5 THEN j ELSE 0]

nibbleNotHalved(b) == (b % 16) + 1

\* line 132: ((hash[19] & 0xf) / 2) + 1
nibble(b) == ((b % 16) \div 2) + 1

\* line 127: hash := sign.Sum(nil)
Sum(last) ==
  /\ gen.pc = "none"
  /\ gen' = [pc |-> "l132", hash |-> Digest(last), nibble |-> 0]
  /\ UNCHANGED <<now, interval, secret, cnp, tasks, done, req>>

\* line 132
Nibble ==
  /\ gen.pc = "l132"
  /\ gen' = [gen EXCEPT !.pc = "l133", !.nibble = nibble(gen.hash[DigestSize])]
  /\ UNCHANGED <<now, interval, secret, cnp, tasks, done, req>>

\* line 133: pk.cnp[i].Store(Uint64(hash[nibble : nibble+8])); the slice
\* expression panics when nibble+8 exceeds the length of hash
StoreCode(s, i) ==
  /\ gen.pc = "l133"
  /\ IF gen.nibble + 8 <= Len(gen.hash)
     THEN /\ cnp' = [cnp EXCEPT ![s][i] =
                       Uint64(SubSeq(gen.hash, gen.nibble + 1, gen.nibble + 8))]
          /\ gen' = [gen EXCEPT !.pc = "stored"]
     ELSE /\ cnp' = cnp
          /\ gen' = [gen EXCEPT !.pc = "panic"]
  /\ UNCHANGED <<now, interval, secret, tasks, done, req>>

\* generate returns
Return ==
  /\ gen.pc = "stored"
  /\ gen' = NoCall
  /\ UNCHANGED <<now, interval, secret, cnp, tasks, done, req>>

\* the last byte of the digest takes every value
LastBytes == 0 .. 255

NextTruncate ==
  \/ \E last \in LastBytes : Sum(last)
  \/ Nibble
  \/ \E i \in Slots : StoreCode("cmd", i)
  \/ Return

SpecTruncate == Init /\ [][NextTruncate]_vars

-----------------------------------------------------------------------------
(* the arguments the calls are tried with                                  *)

IntervalArgs == {<<>>, <<0>>, <<Minute \div 2>>, <<Minute>>}

\* cmd/main.go converts INTERVAL with strconv.Atoi, which yields negative
\* numbers too
AtoiIntervalArgs == IntervalArgs \cup {<<-Minute>>}

SecretArgs ==
  {[type |-> "string", val |-> t] : t \in SecretTexts}
  \cup {[type |-> "bytes", val |-> k] : k \in {ZeroKey, ExampleKey}}
  \cup {[type |-> "other", val |-> <<>>]}

\* what rand.Read may leave in the secret
RandomKeys == {RandomKey}

Pads == {<<0, 0>>, <<255, 7>>}

\* the interval the window is rotating with (the default before Start)
Period(s) == IF interval[s] > 0 THEN interval[s] ELSE Minute

\* the codes a request may carry: zero, the slots, and the codes of the
\* buckets around now
RequestCodes ==
  {0} \cup {cnp["server"][i] : i \in Slots}
  \cup {derive(secret["server"], Floor(now, Period("server")) + j * Period("server")) :
          j \in -2 .. 1}

BadHeaders ==
  { <<>>,
    EncodeToString(<<1, 2, 3, 4, 5, 6, 7, 8, 9>>),
    EncodeToString(<<1, 2, 3, 4, 5, 6, 7, 8, 9, 10, 11>>),
    [i \in 1 .. 16 |-> "a"],
    [i \in 1 .. 15 |-> "A"] }

Headers == BadHeaders \cup {EncodeToString(Credential(c, p)) : c \in RequestCodes, p \in Pads}

-----------------------------------------------------------------------------
(* a server used as the example main uses it: configured, started once,    *)
(* serving requests, and cancelled                                         *)

Step(s, k) ==
  \/ Exit(s, k)
  \/ Recv(s, k)
  \/ LoadCurrent(s, k)
  \/ StorePrevious(s, k)
  \/ LoadNext(s, k)
  \/ StoreCurrent(s, k)
  \/ GenerateNext(s, k)

Run(s) == \E k \in 1 .. Len(tasks[s]) : Step(s, k)

Configure(s) ==
  /\ tasks[s] = <<>>
  /\ \/ \E v \in SecretArgs : Secret(s, v)
     \/ \E a \in IntervalArgs : Interval(s, a)

StartOnce(s) ==
  /\ tasks[s] = <<>>
  /\ \E rnd \in RandomKeys : Start(s, 1, rnd)

Request ==
  \/ req.pc = "idle" /\ \E h \in Headers : Serve(h)
  \/ \E i \in Slots : Case(i)
  \/ Reply

Next ==
  \/ AdvanceTime
  \/ Configure("server")
  \/ StartOnce("server")
  \/ \E c \in Ctxs : Cancel(c)
  \/ Run("server")
  \/ Request

Spec == Init /\ [][Next]_vars

-----------------------------------------------------------------------------
(* the same server without requests, its goroutine scheduled fairly: a      *)
(* runnable goroutine is run, and a select whose ctx.Done() case is ready   *)
(* again and again takes it                                                 *)

NextStop ==
  \/ AdvanceTime
  \/ Configure("server")
  \/ StartOnce("server")
  \/ \E c \in Ctxs : Cancel(c)
  \/ Run("server")

Scheduled(s, k) == k <= Len(tasks[s]) /\ Step(s, k)

Returns(s, k) == k <= Len(tasks[s]) /\ Exit(s, k)

SpecStop ==
  /\ Init
  /\ [][NextStop]_vars
  /\ \A k \in 1 .. MaxStarts : WF_vars(Scheduled("server", k)) /\ SF_vars(Returns("server", k))

-----------------------------------------------------------------------------------------------------------------------------------------------------
(* a CMD session, started at most once, on which Secret, Interval and       *)
(* Current are called in any order and at any time                          *)

\* the arguments that store a whole key or nothing
WholeSecretArgs == {v \in SecretArgs : v.val # PaddedText}

NextApi ==
  \/ AdvanceTimeUntil(Epoch + MaxApiElapsed)
  \/ Alive("cmd") /\ \E v \in WholeSecretArgs : Secret("cmd", v)
  \/ Alive("cmd") /\ \E a \in AtoiIntervalArgs : Interval("cmd", a)
  \/ StartOnce("cmd")
  \/ \E c \in Ctxs : Cancel(c)
  \/ Alive("cmd") /\ \E v \in WholeSecretArgs : \E rnd \in RandomKeys : Current("cmd", v, rnd)
  \/ Run("cmd")

SpecApi == Init /\ [][NextApi]_vars

-----------------------------------------------------------------------------
(* a session on which Start is called again, whether or not the earlier     *)
(* goroutines have returned                                                 *)

StartAgain(s) == \E rnd \in RandomKeys : Start(s, Len(tasks[s]) + 1, rnd)

NextRestart ==
  \/ AdvanceTimeUntil(Epoch + MaxApiElapsed)
  \/ Configure("server")
  \/ StartAgain("server")
  \/ \E c \in Ctxs : Cancel(c)
  \/ Run("server")

SpecRestart == Init /\ [][NextRestart]_vars

-----------------------------------------------------------------------------
(* the example client and the example server: both configured with the      *)
(* same secret and the same interval, each started at a time of its own,    *)
(* the client sending the credential SetHeader builds                       *)

ExampleSecret == [type |-> "string", val |-> ExampleText]

InitPair ==
  /\ now = Epoch
  /\ \E a \in {<<Minute \div 2>>, <<Minute>>} :
       interval = [s \in Sessions |-> IF s = "cmd" THEN 0 ELSE IntervalSet(a)]
  /\ secret = [s \in Sessions |->
                 IF s = "cmd" THEN ZeroKey ELSE SecretSet(ZeroKey, ExampleSecret)]
  /\ cnp = [s \in Sessions |-> [i \in Slots |-> 0]]
  /\ tasks = [s \in Sessions |-> <<>>]
  /\ done = {}
  /\ req = NoRequest
  /\ gen = NoCall

ClientRequest == req.pc = "idle" /\ \E pad \in Pads : Serve(SetHeader("client", pad))

NextPair ==
  \/ AdvanceTime
  \/ StartOnce("server")
  \/ StartOnce("client")
  \/ Run("server")
  \/ Run("client")
  \/ ClientRequest
  \/ \E i \in Slots : Case(i)
  \/ Reply

SpecPair == InitPair /\ [][NextPair]_vars

-----------------------------------------------------------------------------
(* a server configured and started once whose goroutine may be scheduled    *)
(* late, by less than half an interval                                      *)

NextLate ==
  \/ AdvanceTimeUntil(LastTime)
  \/ AdvanceTimeLate(LastTime)
  \/ Configure("server")
  \/ StartOnce("server")
  \/ \E c \in Ctxs : Cancel(c)
  \/ Run("server")

SpecLate == Init /\ [][NextLate]_vars

-----------------------------------------------------------------------------
(* a client whose current slot holds any code, never started, and a server  *)
(* decoding the credentials it sends                                        *)

\* codes whose little-endian bytes take the values 0, 1 and 255 (127 in the
\* highest byte the model's integers have)
WideCodes == {Uint(<<a, b, c, d>>) : a \in {0, 1, 255}, b \in {0, 1, 255},
                                       c \in {0, 1, 255}, d \in {0, 127}}

InitCodec ==
  /\ now = Epoch
  /\ interval = [s \in Sessions |-> 0]
  /\ secret = [s \in Sessions |-> ZeroKey]
  /\ \E c \in WideCodes :
       cnp = [s \in Sessions |-> [i \in Slots |-> IF s = "client" /\ i = 0 THEN c ELSE 0]]
  /\ tasks = [s \in Sessions |-> <<>>]
  /\ done = {}
  /\ req = NoRequest
  /\ gen = NoCall

NextCodec ==
  \/ ClientRequest
  \/ \E i \in Slots : Case(i)
  \/ Reply

SpecCodec == InitCodec /\ [][NextCodec]_vars

-----------------------------------------------------------------------------
(* properties of the server                                                *)

\* the goroutine waits in its select and no tick waits for it
Quiet(s) ==
  /\ tasks[s] # <<>>
  /\ tasks[s][1].pc = "select"
  /\ ~tasks[s][1].pending

\* the rotation has not been cancelled
Rotating(s) == Quiet(s) /\ tasks[s][1].ctx \notin done

\* Start has returned and the first tick has not been handled
ColdStarted(s) ==
  /\ tasks[s] # <<>>
  /\ tasks[s][1].n = 0
  /\ tasks[s][1].pc \in {"select", "halted"}

InWindow(s, c) == \E i \in Slots : cnp[s][i] = c

\* the code generate(i) derives when it runs at time t
CodeDerivedAt(s, i, t) == derive(secret[s], bucketOf(i, t, interval[s]))

\* the request has been answered and the window is the one its loads read
Answered == req.pc = "done" /\ req.out # 400 /\ ~req.raced

\* C4: the step that completes a tick leaves in previous what current held
\* when the tick began, in current what next held, and in next a code
\* derived by generate that was in no slot before
TickAdvancesOneSlot ==
  [][\A s \in Sessions : \A k \in 1 .. Len(tasks[s]) :
       LET t == tasks[s][k]
       IN (t.pc = "g102" /\ tasks'[s][k].pc = "select") =>
            /\ cnp'[s][2] = t.pre[0]
            /\ cnp'[s][0] = t.pre[1]
            /\ \A i \in Slots : cnp'[s][1] # t.pre[i]
            /\ cnp'[s][1] = CodeDerivedAt(s, 1, now)]_vars

TickAdvancesOneSlotWitness ==
  /\ Quiet("server")
  /\ tasks["server"][1].n >= 2
  /\ cnp["server"][2] # 0

MalformedHeader(h) ==
  \/ h = <<>>
  \/ DecodeString(h).err
  \/ Len(DecodeString(h).b) # 10

\* the code in the first 8 of the decoded bytes
HeaderCode(h) == Uint64(SubSeq(DecodeString(h).b, 1, 8))

\* C6: a request ends with 400, 401 or 200; 400 exactly for a malformed
\* header value; and, no slot having been stored since the request arrived,
\* 200 exactly when the first 8 bytes equal one of the three slots and 401
\* exactly when the value is well formed and they equal none
ThreeOutcomes ==
  req.pc = "done" =>
    /\ req.out \in {200, 400, 401}
    /\ req.out = 400 <=> MalformedHeader(req.hdr)
    /\ ~req.raced =>
         /\ req.out = 200 <=>
              (~MalformedHeader(req.hdr) /\ InWindow("server", HeaderCode(req.hdr)))
         /\ req.out = 401 <=>
              (~MalformedHeader(req.hdr) /\ ~InWindow("server", HeaderCode(req.hdr)))

ThreeOutcomesWitness ==
  /\ req.pc = "done"
  /\ ~req.raced
  /\ req.out = 200
  /\ req.code = cnp["server"][2]
  /\ req.code # 0
  /\ SubSeq(DecodeString(req.hdr).b, 9, 10) = <<255, 7>>

\* the times at which the rotation derives a code into next: the Start and
\* every tick after it
DerivationTimes(s) ==
  {tasks[s][1].at + k * tasks[s][1].period : k \in 0 .. MaxElapsed}

\* the code derived at time t is in the window, and a request carrying it is
\* accepted, exactly from t until w intervals later
CoversFor(s, w) ==
  Rotating(s) =>
    \A t \in DerivationTimes(s) :
      LET valid == t <= now /\ now < t + w * tasks[s][1].period
      IN /\ InWindow(s, CodeDerivedAt(s, 1, t)) <=> valid
         /\ (s = "server" /\ Answered /\ req.code = CodeDerivedAt(s, 1, t)) =>
              (req.out = 200 <=> valid)

SingleTickNeverRejects ==
  ( /\ req.pc = "done"
    /\ req.out # 400
    /\ req.win[1] # 0
    /\ req.code \in {req.win[0], req.win[1]}
    /\ InWindow("server", req.code) )
  => req.out = 200

\* C7: when Start has returned or a tick has completed at time now, current
\* holds the code of now rounded down to an interval boundary, next the code
\* one interval ahead of it, and previous, once populated, the code one
\* interval behind it
SlotsAligned ==
  \A s \in Sessions :
    (Quiet(s) /\ now = tasks[s][1].fire - tasks[s][1].period) =>
      LET b == Floor(now, interval[s])
      IN /\ cnp[s][0] = derive(secret[s], b)
         /\ cnp[s][1] = derive(secret[s], b + interval[s])
         /\ tasks[s][1].n >= 1 => cnp[s][2] = derive(secret[s], b - interval[s])

-----------------------------------------------------------------------------
(* properties of stopping and restarting                                   *)

Cancelled(s, k) == k <= Len(tasks[s]) /\ tasks[s][k].ctx \in done

Halted(s, k) == k <= Len(tasks[s]) /\ tasks[s][k].pc = "halted"

\* C8: once its context is cancelled the goroutine eventually returns, and
\* once every goroutine of the session has returned no step changes a slot
StopHalts ==
  /\ \A k \in 1 .. MaxStarts : Cancelled("server", k) ~> Halted("server", k)
  /\ [][(tasks["server"] # <<>> /\ Stopped("server")) => cnp' = cnp]_vars

StopHaltsWitness ==
  /\ Cancelled("server", 1)
  /\ Halted("server", 1)
  /\ tasks["server"][1].n >= 1

\* C9: a Start on a session whose earlier runs have all returned, one of
\* them after handling a tick, leaves current and next derived and previous
\* zero
RestartFromScratch ==
  [][\A s \in Sessions :
       ( /\ Len(tasks'[s]) = Len(tasks[s]) + 1
         /\ Stopped(s)
         /\ \E k \in 1 .. Len(tasks[s]) : tasks[s][k].n >= 1 )
       => /\ cnp'[s][0] # 0
          /\ cnp'[s][1] # 0
          /\ cnp'[s][2] = 0]_vars

\* C10: a tick's generate(1) runs with a stored secret that is not all zero
NeverSignsWithZeroSecret ==
  [][\A s \in Sessions : \A k \in 1 .. Len(tasks[s]) :
       (tasks[s][k].pc = "g102" /\ tasks'[s][k].pc = "select") => secret[s] # ZeroKey]_vars

\* C1: a credential the started client built from its current slot, sent to
\* a server that had been started, is not answered 400 or 401
ClientAlwaysAccepted ==
  (req.pc = "done" /\ req.code # 0 /\ req.win[1] # 0) => req.out = 200

-----------------------------------------------------------------------------
(* properties of Secret, Interval and the codec                            *)

\* the text is not 32 characters long, fails to decode, or decodes to other
\* than the 20 bytes of a key
NotAKey(v) ==
  /\ v.type = "string"
  /\ \/ Len(v.val) # 32
     \/ Decoded[v.val].err
     \/ Len(Decoded[v.val].b) # SecretSize

\* the key a valid argument carries
KeyOfArg(v) == IF v.type = "string" THEN Decoded[v.val].b ELSE v.val

\* C11: a call of Secret changes nothing but the stored secret; with a text
\* of the wrong length, or one that does not decode to a 20-byte key, it
\* changes nothing at all; with a 20-byte key or a text that decodes to one
\* it stores that key
SecretStoresOrIgnores ==
  [][\A s \in Sessions : \A v \in SecretArgs :
       Secret(s, v) =>
         /\ UNCHANGED <<gen, now, interval, cnp, tasks, done, req>>
         /\ NotAKey(v) => secret' = secret
         /\ (v.type = "bytes" \/ (v.type = "string" /\ ~NotAKey(v))) =>
              secret'[s] = KeyOfArg(v)]_vars

\* C12: the handler, given the header value SetHeader built from the
\* client's current slot with any two padding bytes, decodes 10 bytes without
\* error and reads from the first 8 of them exactly the code of that slot
RoundTrip ==
  req.pc # "idle" =>
    /\ req.out # 400
    /\ \E pad \in Pads : req.hdr = SetHeader("client", pad)
    /\ ~DecodeString(req.hdr).err
    /\ Len(DecodeString(req.hdr).b) = 10
    /\ req.code = cnp["client"][0]

RoundTripWitness ==
  /\ req.pc = "done"
  /\ req.code = Uint(<<255, 1, 255, 127>>)
  /\ req.hdr = SetHeader("client", <<255, 7>>)
  /\ req.hdr # SetHeader("client", <<0, 0>>)

\* C13: Interval called with nil or zero stores time.Minute, Start on an
\* unset interval stores time.Minute, and the interval Start hands to its
\* ticker and the interval generate rounds with, in Start, in a tick and in
\* Current, is greater than zero
IntervalInForcePositive ==
  [][\A s \in Sessions :
       /\ \A a \in {<<>>, <<0>>} : Interval(s, a) => interval'[s] = Minute
       /\ \A c \in Ctxs : \A rnd \in RandomKeys :
            Start(s, c, rnd) =>
              /\ interval[s] = 0 => interval'[s] = Minute
              /\ interval'[s] > 0
              /\ tasks'[s][Len(tasks'[s])].period > 0
       /\ \A v \in SecretArgs : \A rnd \in RandomKeys :
            Current(s, v, rnd) => interval'[s] > 0
       /\ \A k \in 1 .. Len(tasks[s]) :
            (tasks[s][k].pc = "g102" /\ tasks'[s][k].pc = "select") => interval[s] > 0]_vars

-----------------------------------------------------------------------------
(* further properties of the server and its rotation                       *)

\* C14: a request answered 200 carries a code that is not zero and that
\* generate derives from the server's secret for some bucket
AcceptedCodeIsDerived ==
  (req.pc = "done" /\ req.out = 200) =>
    /\ req.code # 0
    /\ \E b \in 0 .. (MaxTime + 4 * Minute) : req.code = derive(secret["server"], b)

\* the goroutines of the session that have not returned
Rotators(s) == {k \in 1 .. Len(tasks[s]) : tasks[s][k].pc \notin {"halted", "panic"}}

\* C15: whatever Start calls and cancellations were made, at most one
\* goroutine of a session is left to rotate its window
SingleRotationTask == \A s \in Sessions : Cardinality(Rotators(s)) <= 1

\* C16: when the goroutine of a running session waits in its select, the
\* slots hold the codes of consecutive buckets: next's is one interval after
\* current's and, after the first tick, current's one interval after
\* previous's
ConsecutiveBuckets ==
  \A s \in Sessions :
    (tasks[s] # <<>> /\ tasks[s][1].pc = "select" /\ tasks[s][1].ctx \notin done) =>
      \E b \in 0 .. (LastTime + 4 * Minute) :
        /\ cnp[s][0] = derive(secret[s], b)
        /\ cnp[s][1] = derive(secret[s], b + interval[s])
        /\ tasks[s][1].n >= 1 => cnp[s][2] = derive(secret[s], b - interval[s])

\* C17: when a tick has completed and the rotation, still running, waits in
\* its select, no code of the window that the third last tick found, three
\* completed ticks ago, is in any of the three slots
Expiry ==
  \A s \in Sessions :
    ( /\ tasks[s] # <<>>
      /\ tasks[s][1].pc = "select"
      /\ tasks[s][1].ctx \notin done
      /\ Len(tasks[s][1].hist) = 3 )
    => \A i \in Slots : ~InWindow(s, tasks[s][1].hist[3][i])

\* C18: for every last byte of the digest the offset computed at line 132
\* is ((byte & 0xF) / 2) + 1 and lies in 1 .. 8, the 8 bytes read at line 133
\* end at or before index 16, inside the digest, and the read does not panic
TruncationInBounds ==
  gen.pc \in {"l133", "stored", "panic"} =>
    /\ gen.nibble = ((gen.hash[DigestSize] % 16) \div 2) + 1
    /\ gen.nibble \in 1 .. 8
    /\ gen.nibble + 8 <= 16
    /\ gen.nibble + 8 <= Len(gen.hash)
    /\ gen.pc # "panic"

TruncationInBoundsWitness ==
  /\ gen.pc = "stored"
  /\ gen.hash[DigestSize] = 255
  /\ gen.nibble = 8
  /\ \E i \in Slots : cnp["cmd"][i] = Uint64(SubSeq(gen.hash, 9, 16))

====
